---- MODULE Spec2Model ----
(***************************************************************************)
(* A model of the two dynamic-value designs of the repository:             *)
(*   Variant A  src/dyn-partialeq.rs   enum Val { Int(i64), Obj(Box<dyn>) } *)
(*   Variant B  src/dyn-rc-refcell.rs  struct Val { Rc<RefCell<Box<dyn>>> } *)
(* A behaviour fixes one variant and either explores the API of Val from   *)
(* the program variables val and val2 (pc = "api") or runs main().         *)
(***************************************************************************)
EXTENDS Integers, FiniteSets, Sequences, TLC

\* i64 payload fields range over 0..MaxInt in the API exploration.
MaxInt == 1
\* At most MaxViews read guards are kept alive on one cell at a time.
MaxViews == 2

Ints == 0..MaxInt
\* The program variables holding a Val in the API exploration, and in main().
Handles == {"val", "val2"}
MainHandles == {"ival", "val", "val2"}
\* The concrete types a caller names in obj::<T>() (Variant A, which has no
\* struct Int) and in object::<T>() (Variant B).
TypesA == {"i64", "Complex"}
TypesB == {"Int", "Complex"}

\* ------------------------------------------------------------------ Option

None == [some |-> FALSE]
Some(v) == [some |-> TRUE, v |-> v]

\* ---------------------------------------------------------------- payloads

\* struct Int { int: i64 } (Variant B only)
IntObj(n) == [kind |-> "Int", int |-> n]
\* struct Complex { x: i64, y: i64 }
ComplexObj(x, y) == [kind |-> "Complex", x |-> x, y |-> y]

\* cp.x = x; cp.y = y; through a &mut Complex or a RefMut<Complex>.
\* (a variant that drops the second assignment)
SetXY_x_only(o, x, y) == [o EXCEPT !.x = x]
SetXY(o, x, y) == [o EXCEPT !.x = x, !.y = y]

ComplexObjs == {ComplexObj(x, y) : x \in Ints, y \in Ints}

\* as_any(): the runtime type identity of the concrete object behind dyn Obj.
type_id(o) == o.kind
\* <dyn Any>::is::<T>()
is(o, T) == type_id(o) = T
\* <dyn Any>::downcast_ref::<T>() / downcast_mut::<T>() / Box<dyn Any>::downcast::<T>()
downcast_ref(o, T) == IF is(o, T) THEN Some(o) ELSE None

\* #[derive(PartialEq)] struct Int / struct Complex: field by field.
IntEq(a, b) == a.int = b.int
ComplexEq(a, b) == a.x = b.x /\ a.y = b.y
\* T::eq for the concrete T of self; other has been downcast to the same T.
eq(self, other) ==
    IF type_id(self) = "Int" THEN IntEq(self, other) ELSE ComplexEq(self, other)

\* The number a payload prints first: what an equality blind to types compares.
\* (dyn_eq_by_number: a variant without the downcast)
Leading(o) == IF o.kind = "Int" THEN o.int ELSE o.x
dyn_eq_by_number(self, other) == Leading(self) = Leading(other)
\* impl<T> PartialEqBoxedObj for T :: dyn_eq, reached from BoxedObj::eq.
dyn_eq(self, other) ==
    LET o == downcast_ref(other, type_id(self))
    IN  IF o.some THEN eq(self, o.v) ELSE FALSE

\* i64::partial_cmp
i64_partial_cmp(a, b) ==
    Some(IF a < b THEN "Less" ELSE IF a = b THEN "Equal" ELSE "Greater")
\* #[derive(PartialOrd)] struct Int
IntPartialCmp(a, b) == i64_partial_cmp(a.int, b.int)
\* #[derive(PartialOrd)] struct Complex: lexicographic in declaration order.
\* (a variant that orders by y alone)
ComplexPartialCmp_y_only(a, b) == i64_partial_cmp(a.y, b.y)
ComplexPartialCmp(a, b) ==
    LET c == i64_partial_cmp(a.x, b.x)
    IN  IF c = Some("Equal") THEN i64_partial_cmp(a.y, b.y) ELSE c
partial_cmp(self, other) ==
    IF type_id(self) = "Int" THEN IntPartialCmp(self, other)
    ELSE ComplexPartialCmp(self, other)
\* impl<T> PartialOrdBoxedObj for T :: dyn_partial_cmp, from BoxedObj::partial_cmp.
dyn_partial_cmp(self, other) ==
    LET o == downcast_ref(other, type_id(self))
    IN  IF o.some THEN partial_cmp(self, o.v) ELSE None

\* PartialOrd's provided lt / le / gt / ge, each from partial_cmp.
lt(c) == c = Some("Less")
le(c) == c = Some("Less") \/ c = Some("Equal")
gt(c) == c = Some("Greater")
ge(c) == c = Some("Greater") \/ c = Some("Equal")

\* ------------------------------------------------------- Variant A: enum Val

\* A variable whose Val has been moved out (or not yet initialised).
Moved == [tag |-> "Moved"]
\* impl From<i64> for Val
FromI64A(n) == [tag |-> "Int", int |-> n]
\* impl From<Complex> for Val
FromComplexA(c) == [tag |-> "Obj", obj |-> c]

\* #[derive(PartialEq)] enum Val: same case, then the case's field.
ValEqA(a, b) ==
    IF a.tag = "Int" /\ b.tag = "Int" THEN a.int = b.int
    ELSE IF a.tag = "Obj" /\ b.tag = "Obj" THEN dyn_eq(a.obj, b.obj)
    ELSE FALSE

\* Val::obj::<T>(&self) -> Option<&T>
\* (obj_unchecked: a variant that casts without the type test)
obj_unchecked(self, T) == IF self.tag = "Obj" THEN Some(self.obj) ELSE None
obj(self, T) == IF self.tag = "Obj" THEN downcast_ref(self.obj, T) ELSE None
\* Val::obj_mut::<T>(&mut self) -> Option<&mut T>
obj_mut(self, T) == IF self.tag = "Obj" THEN downcast_ref(self.obj, T) ELSE None
\* Val::obj_into::<T>(self) -> Option<T>: self is moved in either case.
\* (obj_into_keeping_self: a variant that hands the Val back on a mismatch)
obj_into_keeping_self(self, T) ==
    LET r == IF self.tag = "Obj" THEN downcast_ref(self.obj, T) ELSE None
    IN  [ret |-> r, self |-> IF r.some THEN Moved ELSE self]
obj_into(self, T) ==
    [ret |-> IF self.tag = "Obj" THEN downcast_ref(self.obj, T) ELSE None,
     self |-> Moved]

\* What a Variant A Val holds: an i64 (the Int case) or its boxed object, and
\* the runtime type of that.
PayloadA(v) == IF v.tag = "Int" THEN [kind |-> "i64", int |-> v.int] ELSE v.obj
RuntimeTypeA(v) == PayloadA(v).kind

\* --------------------------------------- Variant B: Rc<RefCell<Box<dyn Obj>>>

\* A freed (or never allocated) RcBox.
NoCell == [alive |-> FALSE]
\* Val::new: Rc::new(RefCell::new(value)): one owner, not borrowed.
NewCell(o) == [alive |-> TRUE, value |-> o, borrow |-> 0, strong |-> 1]
\* impl From<i64> for Val / impl From<Complex> for Val
FromI64B(n) == NewCell(IntObj(n))
FromComplexB(c) == NewCell(c)

\* RefCell's borrow flag: 0 unused, n > 0 readers, -1 one writer.
\* RefCell::borrow(): panics (BorrowError) when a writer is out.
RefCellBorrow(flag) ==
    IF flag >= 0 THEN [ok |-> TRUE, flag |-> flag + 1]
    ELSE [ok |-> FALSE, flag |-> flag]
\* RefCell::borrow_mut(): panics (BorrowMutError) unless the cell is unused.
\* (RefCellBorrowMut_unchecked: a variant that never refuses)
RefCellBorrowMut_unchecked(flag) == [ok |-> TRUE, flag |-> -1]
RefCellBorrowMut(flag) ==
    IF flag = 0 THEN [ok |-> TRUE, flag |-> -1]
    ELSE [ok |-> FALSE, flag |-> flag]
\* Drop for Ref / RefMut.
DropRef(flag) == flag - 1
DropRefMut(flag) == flag + 1

\* Val::object::<T>(&self) -> Option<Ref<T>>; borrow is the flag afterwards.
\* (object_leaking: a variant that keeps the borrow when it returns None)
object_leaking(cell, T) ==
    LET b == RefCellBorrow(cell.borrow)
    IN  IF ~b.ok THEN [fault |-> "BorrowError", ret |-> None, borrow |-> cell.borrow]
        ELSE [fault |-> "none", ret |-> downcast_ref(cell.value, T), borrow |-> b.flag]
object(cell, T) ==
    LET b == RefCellBorrow(cell.borrow)
    IN  IF ~b.ok
        THEN [fault |-> "BorrowError", ret |-> None, borrow |-> cell.borrow]
        ELSE IF is(cell.value, T)
        THEN [fault |-> "none", ret |-> downcast_ref(cell.value, T), borrow |-> b.flag]
        \* the local `value` is dropped on the way out
        ELSE [fault |-> "none", ret |-> None, borrow |-> DropRef(b.flag)]

\* Val::object_mut::<T>(&self) -> Option<RefMut<T>>
\* (object_mut_type_first: a variant that tests the type before it borrows)
object_mut_type_first(cell, T) ==
    IF ~is(cell.value, T)
    THEN [fault |-> "none", ret |-> None, borrow |-> cell.borrow]
    ELSE LET b == RefCellBorrowMut(cell.borrow)
         IN  IF ~b.ok
             THEN [fault |-> "BorrowMutError", ret |-> None, borrow |-> cell.borrow]
             ELSE [fault |-> "none", ret |-> Some(cell.value), borrow |-> b.flag]
object_mut(cell, T) ==
    LET b == RefCellBorrowMut(cell.borrow)
    IN  IF ~b.ok
        THEN [fault |-> "BorrowMutError", ret |-> None, borrow |-> cell.borrow]
        ELSE IF is(cell.value, T)
        THEN [fault |-> "none", ret |-> downcast_ref(cell.value, T), borrow |-> b.flag]
        ELSE [fault |-> "none", ret |-> None, borrow |-> DropRefMut(b.flag)]

\* Val::into_object::<T>(self) -> Option<T>; cell is the RcBox afterwards.
\* Rc::try_unwrap gives Err(rc) unless self is the only owner; unwrap() then
\* panics and drops that rc.
\* (into_object_unchecked: a variant that takes the payload whoever else owns it)
into_object_unchecked(cell, T) ==
    [fault |-> "none", ret |-> downcast_ref(cell.value, T), cell |-> NoCell]
into_object(cell, T) ==
    IF cell.strong # 1
    THEN [fault |-> "TryUnwrapError", ret |-> None,
          cell |-> [cell EXCEPT !.strong = @ - 1]]
    ELSE [fault |-> "none", ret |-> downcast_ref(cell.value, T), cell |-> NoCell]

\* The flags of two cells (one cell when same) after both are read-borrowed
\* and both temporaries are dropped again, or the fault of the first borrow
\* that fails.  RefCell::eq and RefCell::partial_cmp: *self.borrow() OP
\* *other.borrow().
\* (BorrowBoth_first_only: a variant that borrows the left operand alone)
BorrowBoth_first_only(a, b, same) ==
    LET b1 == RefCellBorrow(a.borrow)
    IN  IF ~b1.ok
        THEN [fault |-> "BorrowError", a |-> a.borrow, b |-> b.borrow]
        ELSE [fault |-> "none", a |-> DropRef(b1.flag), b |-> b.borrow]
BorrowBoth(a, b, same) ==
    LET b1 == RefCellBorrow(a.borrow)
        b2 == RefCellBorrow(IF same THEN b1.flag ELSE b.borrow)
    IN  IF ~b1.ok \/ ~b2.ok
        THEN [fault |-> "BorrowError", a |-> a.borrow, b |-> b.borrow]
        ELSE IF same
        THEN [fault |-> "none", a |-> DropRef(DropRef(b2.flag)),
              b |-> DropRef(DropRef(b2.flag))]
        ELSE [fault |-> "none", a |-> DropRef(b1.flag), b |-> DropRef(b2.flag)]

\* #[derive(PartialEq)] struct Val -> Rc::eq -> RefCell::eq -> BoxedObj::eq
ValEqB(a, b, same) ==
    LET f == BorrowBoth(a, b, same)
    IN  [fault |-> f.fault, a |-> f.a, b |-> f.b,
         res |-> IF f.fault = "none" THEN dyn_eq(a.value, b.value) ELSE FALSE]

\* #[derive(PartialOrd)] struct Val -> Rc -> RefCell -> BoxedObj::partial_cmp
ValPartialCmpB(a, b, same) ==
    LET f == BorrowBoth(a, b, same)
    IN  [fault |-> f.fault, a |-> f.a, b |-> f.b,
         cmp |-> IF f.fault = "none" THEN dyn_partial_cmp(a.value, b.value) ELSE None]

\* ------------------------------------------------------------------- state

VARIABLES
    variant,  \* "A" or "B": which of the two source files runs
    pc,       \* "api": any call on val / val2; otherwise the position in main()
    vals,     \* program variable -> the Val it holds, or Moved
    cells,    \* Variant B: address -> RcBox (payload, borrow flag, strong count)
    refs,     \* Variant B: program variable -> Ref guards alive that borrow it
    muts,     \* Variant B: program variable -> RefMut guards alive that borrow it
    written,  \* history: the payload last constructed or assigned through &mut /
              \* RefMut, per variable (Variant A) or per cell (Variant B)
    ret,      \* the last call: its arguments, what it returned, and what the
              \* operands were when it was made
    out       \* what main() has printed so far

vars == <<variant, pc, vals, cells, refs, muts, written, ret, out>>

Nil == [kind |-> "Nil"]
NoRet ==
    [op |-> "none", h |-> "", h2 |-> "", ty |-> "", fault |-> "none",
     ret |-> None, res |-> FALSE, cmp |-> None, cell |-> 0, before |-> Moved,
     readers |-> 0, writers |-> 0]
Called(op, h, h2, ty) == [NoRet EXCEPT !.op = op, !.h = h, !.h2 = h2, !.ty = ty]

RECURSIVE Sum(_, _)
Sum(f, S) ==
    IF S = {} THEN 0
    ELSE LET x == CHOOSE x \in S : TRUE IN f[x] + Sum(f, S \ {x})

Live(h) == vals[h].tag # "Moved"
\* Variant B: the variables whose Val shares cell c, and the guards alive on it.
HandlesOf(c) == {h \in DOMAIN vals : vals[h].tag = "Rc" /\ vals[h].cell = c}
Readers(c) == Sum(refs, HandlesOf(c))
Writers(c) == Sum(muts, HandlesOf(c))
\* The guards of one sort alive on the cells of two operands (maybe one cell).
ViewsOn(guards, ca, cb) == Sum(guards, HandlesOf(ca) \cup HandlesOf(cb))
Unborrowed(h) == refs[h] = 0 /\ muts[h] = 0
\* The lowest free address.
FreeCell ==
    CHOOSE c \in DOMAIN cells :
        /\ ~cells[c].alive
        /\ \A d \in DOMAIN cells : ~cells[d].alive => c <= d
RcTo(c) == [tag |-> "Rc", cell |-> c]

InitFor(v, p, hs) ==
    /\ variant = v
    /\ pc = p
    /\ vals = [h \in hs |-> Moved]
    /\ cells = [c \in 1..Cardinality(hs) |-> NoCell]
    /\ refs = [h \in hs |-> 0]
    /\ muts = [h \in hs |-> 0]
    /\ written = IF v = "A" THEN [h \in hs |-> Nil]
                 ELSE [c \in 1..Cardinality(hs) |-> Nil]
    /\ ret = NoRet
    /\ out = <<>>

Init ==
    \E v \in {"A", "B"} :
        \/ InitFor(v, "api", Handles)
        \/ InitFor(v, "main", MainHandles)

\* A panic ends the program: nothing runs after a call has faulted.
Running == pc = "api" /\ ret.fault = "none"

\* ------------------------------------------------------- construction, drop

\* let h = Val::from(v), v an i64 or a Complex.
Construct(h, a, b, o) ==
    /\ Running
    /\ ~Live(h)
    /\ IF variant = "A"
       THEN /\ vals' = [vals EXCEPT ![h] = a]
            /\ written' = [written EXCEPT ![h] = o]
            /\ cells' = cells
       ELSE /\ vals' = [vals EXCEPT ![h] = RcTo(FreeCell)]
            /\ cells' = [cells EXCEPT ![FreeCell] = b]
            /\ written' = [written EXCEPT ![FreeCell] = o]
    /\ ret' = Called("from", h, "", "")
    /\ UNCHANGED <<variant, pc, refs, muts, out>>

FromI64(h, n) ==
    Construct(h, FromI64A(n), FromI64B(n),
              IF variant = "A" THEN PayloadA(FromI64A(n)) ELSE IntObj(n))

FromComplex(h, c) ==
    Construct(h, FromComplexA(c), FromComplexB(c), c)

\* h goes out of scope.  Variant B: Rc's Drop frees the cell with the last owner.
\* The borrow checker rejects it while a guard borrowed from h is alive.
DropVal(h) ==
    /\ Running
    /\ Live(h)
    /\ Unborrowed(h)
    /\ vals' = [vals EXCEPT ![h] = Moved]
    /\ cells' = IF variant = "A" THEN cells
                ELSE LET c == vals[h].cell
                     IN  [cells EXCEPT ![c] = IF @.strong = 1 THEN NoCell
                                              ELSE [@ EXCEPT !.strong = @ - 1]]
    /\ ret' = Called("drop", h, "", "")
    /\ UNCHANGED <<variant, pc, refs, muts, written, out>>

\* A second Val on the cell of h: shared ownership.  The source has no such
\* operation (Val is not Clone); this is the spec's clone_handle, Rc::clone of
\* the value field.
CloneHandle(h, h2) ==
    /\ Running
    /\ variant = "B"
    /\ Live(h)
    /\ ~Live(h2)
    /\ vals' = [vals EXCEPT ![h2] = vals[h]]
    /\ cells' = [cells EXCEPT ![vals[h].cell].strong = @ + 1]
    /\ ret' = Called("clone", h, h2, "")
    /\ UNCHANGED <<variant, pc, refs, muts, written, out>>

\* -------------------------------------------------------------- comparison

\* a == b
Eq(a, b) ==
    /\ Running
    /\ Live(a) /\ Live(b)
    /\ IF variant = "A"
       THEN /\ ret' = [Called("eq", a, b, "") EXCEPT !.res = ValEqA(vals[a], vals[b])]
            /\ cells' = cells
       ELSE LET ca == vals[a].cell
                cb == vals[b].cell
                r == ValEqB(cells[ca], cells[cb], ca = cb)
            IN  /\ ret' = [Called("eq", a, b, "") EXCEPT
                              !.res = r.res, !.fault = r.fault,
                              !.readers = ViewsOn(refs, ca, cb),
                              !.writers = ViewsOn(muts, ca, cb)]
                /\ cells' = [c \in DOMAIN cells |->
                                IF c = ca THEN [cells[c] EXCEPT !.borrow = r.a]
                                ELSE IF c = cb THEN [cells[c] EXCEPT !.borrow = r.b]
                                ELSE cells[c]]
    /\ UNCHANGED <<variant, pc, vals, refs, muts, written, out>>

\* a.partial_cmp(&b), and a < b, a <= b, a > b, a >= b read off it (Variant B).
PartialCmp(a, b) ==
    /\ Running
    /\ variant = "B"
    /\ Live(a) /\ Live(b)
    /\ LET ca == vals[a].cell
           cb == vals[b].cell
           r == ValPartialCmpB(cells[ca], cells[cb], ca = cb)
       IN  /\ ret' = [Called("partial_cmp", a, b, "") EXCEPT
                         !.cmp = r.cmp, !.fault = r.fault,
                         !.readers = ViewsOn(refs, ca, cb),
                         !.writers = ViewsOn(muts, ca, cb)]
           /\ cells' = [c \in DOMAIN cells |->
                           IF c = ca THEN [cells[c] EXCEPT !.borrow = r.a]
                           ELSE IF c = cb THEN [cells[c] EXCEPT !.borrow = r.b]
                           ELSE cells[c]]
    /\ UNCHANGED <<variant, pc, vals, refs, muts, written, out>>

\* ------------------------------------------------- Variant A: typed access

\* h.obj::<T>()
Obj(h, T) ==
    /\ Running
    /\ variant = "A"
    /\ Live(h)
    /\ ret' = [Called("obj", h, "", T) EXCEPT !.ret = obj(vals[h], T), !.before = vals[h]]
    /\ UNCHANGED <<variant, pc, vals, cells, refs, muts, written, out>>

\* let cp = h.obj_mut::<T>(); and, when it is Some, cp.x = x; cp.y = y;
ObjMut(h, T, x, y) ==
    /\ Running
    /\ variant = "A"
    /\ Live(h)
    /\ LET r == obj_mut(vals[h], T)
       IN  /\ ret' = [Called("obj_mut", h, "", T) EXCEPT !.ret = r, !.before = vals[h]]
           /\ IF r.some /\ type_id(r.v) = "Complex"
              THEN /\ vals' = [vals EXCEPT ![h].obj = SetXY(@, x, y)]
                   /\ written' = [written EXCEPT ![h] = ComplexObj(x, y)]
              ELSE UNCHANGED <<vals, written>>
    /\ UNCHANGED <<variant, pc, cells, refs, muts, out>>

\* h.obj_into::<T>()
ObjInto(h, T) ==
    /\ Running
    /\ variant = "A"
    /\ Live(h)
    /\ LET r == obj_into(vals[h], T)
       IN  /\ ret' = [Called("obj_into", h, "", T) EXCEPT !.ret = r.ret, !.before = vals[h]]
           /\ vals' = [vals EXCEPT ![h] = r.self]
    /\ UNCHANGED <<variant, pc, cells, refs, muts, written, out>>

\* ------------------------------------------------- Variant B: typed access

\* let g = h.object::<T>(); a returned guard stays alive until DropGuard.
Object(h, T) ==
    /\ Running
    /\ variant = "B"
    /\ Live(h)
    /\ LET c == vals[h].cell
           r == object(cells[c], T)
       IN  /\ Readers(c) < MaxViews
           /\ ret' = [Called("object", h, "", T) EXCEPT
                         !.ret = r.ret, !.fault = r.fault, !.cell = c,
                         !.before = cells[c],
                         !.readers = Readers(c), !.writers = Writers(c)]
           /\ cells' = [cells EXCEPT ![c].borrow = r.borrow]
           /\ refs' = [refs EXCEPT ![h] = IF r.ret.some THEN @ + 1 ELSE @]
    /\ UNCHANGED <<variant, pc, vals, muts, written, out>>

\* let g = h.object_mut::<T>();
ObjectMut(h, T) ==
    /\ Running
    /\ variant = "B"
    /\ Live(h)
    /\ LET c == vals[h].cell
           r == object_mut(cells[c], T)
       IN  /\ ret' = [Called("object_mut", h, "", T) EXCEPT
                         !.ret = r.ret, !.fault = r.fault, !.cell = c,
                         !.before = cells[c],
                         !.readers = Readers(c), !.writers = Writers(c)]
           /\ cells' = [cells EXCEPT ![c].borrow = r.borrow]
           /\ muts' = [muts EXCEPT ![h] = IF r.ret.some THEN @ + 1 ELSE @]
    /\ UNCHANGED <<variant, pc, vals, refs, written, out>>

\* cp.x = x; cp.y = y; through a RefMut<Complex> cp borrowed from h.
WriteComplex(h, x, y) ==
    /\ Running
    /\ variant = "B"
    /\ Live(h)
    /\ muts[h] > 0
    /\ LET c == vals[h].cell
       IN  /\ type_id(cells[c].value) = "Complex"
           /\ cells' = [cells EXCEPT ![c].value = SetXY(@, x, y)]
           /\ written' = [written EXCEPT ![c] = ComplexObj(x, y)]
           /\ ret' = [Called("write", h, "", "Complex") EXCEPT !.cell = c]
    /\ UNCHANGED <<variant, pc, vals, refs, muts, out>>

\* ip.int = n; through a RefMut<Int> ip borrowed from h.
WriteInt(h, n) ==
    /\ Running
    /\ variant = "B"
    /\ Live(h)
    /\ muts[h] > 0
    /\ LET c == vals[h].cell
       IN  /\ type_id(cells[c].value) = "Int"
           /\ cells' = [cells EXCEPT ![c].value.int = n]
           /\ written' = [written EXCEPT ![c] = IntObj(n)]
           /\ ret' = [Called("write", h, "", "Int") EXCEPT !.cell = c]
    /\ UNCHANGED <<variant, pc, vals, refs, muts, out>>

\* A Ref borrowed from h goes out of scope.
DropGuardRef(h) ==
    /\ Running
    /\ variant = "B"
    /\ refs[h] > 0
    /\ refs' = [refs EXCEPT ![h] = @ - 1]
    /\ cells' = [cells EXCEPT ![vals[h].cell].borrow = DropRef(@)]
    /\ ret' = [Called("drop_ref", h, "", "") EXCEPT !.cell = vals[h].cell]
    /\ UNCHANGED <<variant, pc, vals, muts, written, out>>

\* A RefMut borrowed from h goes out of scope.
DropGuardMut(h) ==
    /\ Running
    /\ variant = "B"
    /\ muts[h] > 0
    /\ muts' = [muts EXCEPT ![h] = @ - 1]
    /\ cells' = [cells EXCEPT ![vals[h].cell].borrow = DropRefMut(@)]
    /\ ret' = [Called("drop_mut", h, "", "") EXCEPT !.cell = vals[h].cell]
    /\ UNCHANGED <<variant, pc, vals, refs, written, out>>

\* h.into_object::<T>(): h is moved, so no guard borrowed from h is alive.
IntoObject(h, T) ==
    /\ Running
    /\ variant = "B"
    /\ Live(h)
    /\ Unborrowed(h)
    /\ LET c == vals[h].cell
           r == into_object(cells[c], T)
       IN  /\ ret' = [Called("into_object", h, "", T) EXCEPT
                         !.ret = r.ret, !.fault = r.fault, !.cell = c,
                         !.before = cells[c],
                         !.readers = Readers(c), !.writers = Writers(c)]
           /\ cells' = [cells EXCEPT ![c] = r.cell]
           /\ vals' = [vals EXCEPT ![h] = Moved]
    /\ UNCHANGED <<variant, pc, refs, muts, written, out>>

\* ------------------------------------------------------------------ main()

\* let ival = Val::from(1337); let mut val = Val::from(Complex{x: 23, y: 42});
\* let val2 = Val::from(Complex{x: 23, y: 42});
MainCreate ==
    /\ pc = "main"
    /\ IF variant = "A"
       THEN /\ vals' = [vals EXCEPT !["ival"] = FromI64A(1337),
                                    !["val"] = FromComplexA(ComplexObj(23, 42)),
                                    !["val2"] = FromComplexA(ComplexObj(23, 42))]
            /\ written' = [written EXCEPT !["ival"] = PayloadA(FromI64A(1337)),
                                          !["val"] = ComplexObj(23, 42),
                                          !["val2"] = ComplexObj(23, 42)]
            /\ cells' = cells
       ELSE /\ vals' = [vals EXCEPT !["ival"] = RcTo(1), !["val"] = RcTo(2),
                                    !["val2"] = RcTo(3)]
            /\ cells' = [cells EXCEPT ![1] = FromI64B(1337),
                                      ![2] = FromComplexB(ComplexObj(23, 42)),
                                      ![3] = FromComplexB(ComplexObj(23, 42))]
            /\ written' = [written EXCEPT ![1] = IntObj(1337),
                                          ![2] = ComplexObj(23, 42),
                                          ![3] = ComplexObj(23, 42)]
    /\ pc' = "compare1"
    /\ UNCHANGED <<variant, refs, muts, ret, out>>

\* The "Compare stuff" block: val == val2, (Variant B: val < val2, val > val2,
\* val <= val2, val >= val2,) val == ival.
MainCompare ==
    /\ pc \in {"compare1", "compare2"}
    /\ IF variant = "A"
       THEN /\ out' = Append(out, [eq |-> ValEqA(vals["val"], vals["val2"]),
                                   eq_ival |-> ValEqA(vals["val"], vals["ival"])])
            /\ pc' = IF pc = "compare1" THEN "ref" ELSE "into"
       ELSE LET v == cells[vals["val"].cell]
                v2 == cells[vals["val2"].cell]
                iv == cells[vals["ival"].cell]
                e == ValEqB(v, v2, FALSE)
                c == ValPartialCmpB(v, v2, FALSE)
                ei == ValEqB(v, iv, FALSE)
            IN  IF e.fault = "none" /\ c.fault = "none" /\ ei.fault = "none"
                THEN /\ out' = Append(out, [eq |-> e.res, lt |-> lt(c.cmp),
                                            gt |-> gt(c.cmp), le |-> le(c.cmp),
                                            ge |-> ge(c.cmp), eq_ival |-> ei.res])
                     /\ pc' = IF pc = "compare1" THEN "ref" ELSE "into"
                ELSE /\ out' = out
                     /\ pc' = "panicked"
    /\ UNCHANGED <<variant, vals, cells, refs, muts, written, ret>>

\* { let cp = val.obj::<Complex>().unwrap(); println!(cp); }
MainRef ==
    /\ pc = "ref"
    /\ LET r == IF variant = "A" THEN obj(vals["val"], "Complex")
                ELSE object(cells[vals["val"].cell], "Complex").ret
       IN  IF r.some
           THEN /\ out' = Append(out, r.v)
                /\ pc' = "mut"
           ELSE /\ out' = out
                /\ pc' = "panicked"
    \* Variant B: the Ref taken by object() is dropped at the end of the block.
    /\ cells' = IF variant = "A" THEN cells
                ELSE LET c == vals["val"].cell
                         r == object(cells[c], "Complex")
                     IN  [cells EXCEPT ![c].borrow =
                             IF r.ret.some THEN DropRef(r.borrow) ELSE r.borrow]
    /\ UNCHANGED <<variant, vals, refs, muts, written, ret>>

\* { let mut cp = val.obj_mut::<Complex>().unwrap(); cp.x = 1337; cp.y = 666;
\*   println!(cp); }
MainMut ==
    /\ pc = "mut"
    /\ IF variant = "A"
       THEN LET r == obj_mut(vals["val"], "Complex")
            IN  IF r.some
                THEN /\ vals' = [vals EXCEPT !["val"].obj = SetXY(@, 1337, 666)]
                     /\ written' = [written EXCEPT !["val"] = ComplexObj(1337, 666)]
                     /\ out' = Append(out, vals'["val"].obj)
                     /\ pc' = "compare2"
                     /\ cells' = cells
                ELSE /\ pc' = "panicked"
                     /\ UNCHANGED <<vals, written, out, cells>>
       ELSE LET c == vals["val"].cell
                r == object_mut(cells[c], "Complex")
            IN  IF r.ret.some
                THEN /\ cells' = [cells EXCEPT ![c].value = SetXY(@, 1337, 666),
                                               ![c].borrow = DropRefMut(r.borrow)]
                     /\ written' = [written EXCEPT ![c] = ComplexObj(1337, 666)]
                     /\ out' = Append(out, cells'[c].value)
                     /\ pc' = "compare2"
                     /\ vals' = vals
                ELSE /\ pc' = "panicked"
                     /\ UNCHANGED <<vals, written, out, cells>>
    /\ UNCHANGED <<variant, refs, muts, ret>>

\* { let c = val.obj_into::<Complex>(); println!(c); }
MainInto ==
    /\ pc = "into"
    /\ IF variant = "A"
       THEN LET r == obj_into(vals["val"], "Complex")
            IN  /\ out' = Append(out, r.ret)
                /\ vals' = [vals EXCEPT !["val"] = r.self]
                /\ cells' = cells
                /\ pc' = "done"
       ELSE LET c == vals["val"].cell
                r == into_object(cells[c], "Complex")
            IN  /\ out' = IF r.fault = "none" THEN Append(out, r.ret) ELSE out
                /\ vals' = [vals EXCEPT !["val"] = Moved]
                /\ cells' = [cells EXCEPT ![c] = r.cell]
                /\ pc' = IF r.fault = "none" THEN "done" ELSE "panicked"
    /\ UNCHANGED <<variant, refs, muts, written, ret>>

\* ---------------------------------------------------------- specifications

Api ==
    \/ \E h \in Handles, n \in Ints : FromI64(h, n)
    \/ \E h \in Handles, c \in ComplexObjs : FromComplex(h, c)
    \/ \E h \in Handles : DropVal(h)
    \/ \E a \in Handles, b \in Handles : Eq(a, b)
    \/ \E a \in Handles, b \in Handles : PartialCmp(a, b)
    \/ \E h \in Handles, T \in TypesA : Obj(h, T)
    \/ \E h \in Handles, T \in TypesA, x \in Ints, y \in Ints : ObjMut(h, T, x, y)
    \/ \E h \in Handles, T \in TypesA : ObjInto(h, T)
    \/ \E h \in Handles, T \in TypesB : Object(h, T)
    \/ \E h \in Handles, T \in TypesB : ObjectMut(h, T)
    \/ \E h \in Handles, x \in Ints, y \in Ints : WriteComplex(h, x, y)
    \/ \E h \in Handles, n \in Ints : WriteInt(h, n)
    \/ \E h \in Handles : DropGuardRef(h)
    \/ \E h \in Handles : DropGuardMut(h)
    \/ \E h \in Handles, T \in TypesB : IntoObject(h, T)

Main == MainCreate \/ MainCompare \/ MainRef \/ MainMut \/ MainInto

Next == Api \/ Main

\* The two programs as written: every Val has one owner.
Spec == Init /\ [][Next]_vars

Share == \E h \in Handles, h2 \in Handles : CloneHandle(h, h2)

\* With handles that share a cell.
SpecShared == Init /\ [][Next \/ Share]_vars

\* ------------------------------------------------------------------ claims

\* What the operands of the last call hold, read from the state.
PayloadOf(h) == IF variant = "A" THEN PayloadA(vals[h]) ELSE cells[vals[h].cell].value
\* The same runtime kind, and that kind's own equality on the fields.
SameKindAndEqual(p, q) ==
    /\ p.kind = q.kind
    /\ p.kind \in {"i64", "Int"} => p.int = q.int
    /\ p.kind = "Complex" => p.x = q.x /\ p.y = q.y
NoViewAtCall == ret.readers = 0 /\ ret.writers = 0

\* C1: with no view outstanding, a == b is true exactly when a and b hold the
\* same runtime payload kind and that kind's equality holds on the payloads;
\* Values of different kinds are never equal, also when their numbers coincide
\* (Val::from(5) against Val::from(Complex{x: 5, y: 0})).
C1_EqualIffSameKindAndEqual ==
    /\ (ret.op = "eq" /\ NoViewAtCall) =>
          /\ ret.fault = "none"
          /\ ret.res = SameKindAndEqual(PayloadOf(ret.h), PayloadOf(ret.h2))
    /\ ~ValEqA(FromI64A(5), FromComplexA(ComplexObj(5, 0)))
    /\ ~ValEqB(FromI64B(5), FromComplexB(ComplexObj(5, 0)), FALSE).res
    /\ ValEqA(FromI64A(5), FromI64A(5))
    /\ ~ValEqA(FromI64A(5), FromI64A(4))

C1_Witness ==
    /\ ret.op = "eq"
    /\ NoViewAtCall
    /\ PayloadOf(ret.h).kind # PayloadOf(ret.h2).kind
    /\ PayloadOf(ret.h).kind = "Complex"
    /\ PayloadOf(ret.h).x = PayloadOf(ret.h2).int
    /\ PayloadOf(ret.h).y = 0
    /\ ~ret.res

\* C2: on every cell at most one write view is outstanding, and while one is,
\* no read view is.
C2_WriterExcludesAll ==
    \A c \in DOMAIN cells :
        cells[c].alive =>
            /\ Writers(c) <= 1
            /\ Writers(c) = 1 => Readers(c) = 0

\* Several read views outstanding together on one cell, no write view.
C2_Witness ==
    \E c \in DOMAIN cells : cells[c].alive /\ Readers(c) >= 2 /\ Writers(c) = 0

\* C3: object_mut::<T>() with any view outstanding on the cell, and
\* object::<T>() with a write view outstanding, fault with a borrow conflict,
\* whatever T is; they return no view and the views outstanding stay as they were.
C3_ConflictFaults ==
    /\ (ret.op = "object_mut" /\ ret.readers + ret.writers > 0) =>
          /\ ret.fault = "BorrowMutError"
          /\ ~ret.ret.some
          /\ Readers(ret.cell) = ret.readers /\ Writers(ret.cell) = ret.writers
    /\ (ret.op = "object" /\ ret.writers > 0) =>
          /\ ret.fault = "BorrowError"
          /\ ~ret.ret.some
          /\ Readers(ret.cell) = ret.readers /\ Writers(ret.cell) = ret.writers

\* object_mut::<T>() for a T the cell does not hold, while a read view is out.
C3_Witness ==
    /\ ret.op = "object_mut"
    /\ ret.readers > 0
    /\ ret.ty # type_id(ret.before.value)
    /\ ret.fault = "BorrowMutError"
    /\ Readers(ret.cell) = ret.readers

TypedAccess == {"obj", "obj_mut", "obj_into", "object", "object_mut", "into_object"}
\* The runtime type of what the receiver of the last typed access held.
RuntimeTypeAtCall ==
    IF variant = "A" THEN RuntimeTypeA(ret.before) ELSE type_id(ret.before.value)
WrongTypeCall == ret.op \in TypedAccess /\ ret.ty # RuntimeTypeAtCall
\* The last call asked for a view that the views outstanding exclude.
ConflictAtCall ==
    \/ ret.op = "object" /\ ret.writers > 0
    \/ ret.op = "object_mut" /\ ret.readers + ret.writers > 0

\* C4 as claimed: in every reachable state, views outstanding or not, a typed
\* borrow, mutable borrow or take that names a type other than the payload's
\* runtime type returns None and never faults.
C4_WrongTypeNeverFaults ==
    WrongTypeCall => ret.fault = "none" /\ ~ret.ret.some

\* C4 as amended: it returns None without a fault unless the call conflicts
\* with a view outstanding on the cell (Variant B: object with a write view
\* out, object_mut with any view out); then it faults with the borrow
\* conflict, as it does for the right type.
C4_WrongTypeNoneUnlessConflict ==
    WrongTypeCall =>
        /\ ~ret.ret.some
        /\ ConflictAtCall => ret.fault \in {"BorrowError", "BorrowMutError"}
        /\ ~ConflictAtCall => ret.fault = "none"

\* object::<T>() for a wrong T beside a read view: None, no fault.
C4_Witness ==
    /\ ret.op = "object"
    /\ WrongTypeCall
    /\ ret.readers > 0
    /\ ret.fault = "none"
    /\ ~ret.ret.some

Comparisons == {"eq", "partial_cmp"}

\* C5 as claimed: a comparison returns a result without faulting for every pair
\* of Values, also while a read or write view is outstanding on a cell.
C5_ComparisonNeverFaults ==
    ret.op \in Comparisons => ret.fault = "none"

\* C5 as amended: a comparison returns a result unless a write view is
\* outstanding on the cell of either operand (Variant B), when it faults with
\* the borrow conflict; in both cases it leaves the Values, the payloads, the
\* borrow flags, the owner counts and the views as they were.
C5_ComparisonTotalUnlessWriter ==
    /\ [](ret.op \in Comparisons =>
            /\ ret.fault = "none" <=> ret.writers = 0
            /\ ret.fault \in {"none", "BorrowError"})
    /\ [][ret'.op \in Comparisons => UNCHANGED <<vals, cells, refs, muts, written>>]_vars

\* v == v while a read view on v's cell is outstanding.
C5_Witness ==
    /\ ret.op = "eq"
    /\ ret.h = ret.h2
    /\ variant = "B"
    /\ ret.readers > 0
    /\ ret.fault = "none"
    /\ ret.res

\* Int by its integer; Complex by x, then by y.
NativeOrder(p, q) ==
    IF p.kind = "Int"
    THEN IF p.int < q.int THEN "Less" ELSE IF p.int > q.int THEN "Greater" ELSE "Equal"
    ELSE IF p.x < q.x \/ (p.x = q.x /\ p.y < q.y) THEN "Less"
    ELSE IF p.x > q.x \/ (p.x = q.x /\ p.y > q.y) THEN "Greater"
    ELSE "Equal"

\* C6: with no view outstanding, partial_cmp(a, b) is None when the payload
\* kinds differ, and then a < b, a > b, a <= b, a >= b are all false; for the
\* same kind it is that kind's own ordering, and Some(Equal) exactly when a == b.
C6_PartialCmp ==
    (ret.op = "partial_cmp" /\ NoViewAtCall) =>
        LET p == PayloadOf(ret.h)
            q == PayloadOf(ret.h2)
            ca == cells[vals[ret.h].cell]
            cb == cells[vals[ret.h2].cell]
        IN  /\ ret.fault = "none"
            /\ p.kind # q.kind =>
                  /\ ret.cmp = None
                  /\ ~lt(ret.cmp) /\ ~gt(ret.cmp) /\ ~le(ret.cmp) /\ ~ge(ret.cmp)
            /\ p.kind = q.kind => ret.cmp = Some(NativeOrder(p, q))
            /\ ret.cmp = Some("Equal") <=> ValEqB(ca, cb, ret.h = ret.h2).res

\* Two Complex with the same x, ordered by y.
C6_Witness ==
    /\ ret.op = "partial_cmp"
    /\ NoViewAtCall
    /\ PayloadOf(ret.h).kind = "Complex"
    /\ PayloadOf(ret.h2).kind = "Complex"
    /\ PayloadOf(ret.h).x = PayloadOf(ret.h2).x
    /\ ret.cmp = Some("Greater")

\* C7: into_object::<T>() yields the payload only as the sole owner; when other
\* handles share the cell it fails with an error of its own kind, and the cell
\* those handles reference is alive with the payload it had.
C7_TakeNeedsSoleOwner ==
    ret.op = "into_object" =>
        /\ ret.fault = "none" => ret.before.strong = 1
        /\ ret.before.strong > 1 =>
              /\ ret.fault = "TryUnwrapError"
              /\ ~ret.ret.some
              /\ HandlesOf(ret.cell) # {}
              /\ cells[ret.cell].alive
              /\ cells[ret.cell].value = ret.before.value
              /\ cells[ret.cell].borrow = ret.before.borrow
              /\ cells[ret.cell].strong = Cardinality(HandlesOf(ret.cell))

C7_Witness ==
    /\ ret.op = "into_object"
    /\ ret.before.strong = 2
    /\ ret.ty = type_id(ret.before.value)
    /\ ret.fault = "TryUnwrapError"
    /\ cells[ret.cell].alive

Takes == {"obj_into", "into_object"}
\* What the consumed Value held: the i64 or the boxed object.
TakenFrom == IF variant = "A" THEN PayloadA(ret.before) ELSE ret.before.value
\* The Value is gone, and so is its payload.
Consumed ==
    /\ ~Live(ret.h)
    /\ variant = "B" => ~cells[ret.cell].alive

\* C8 as claimed: a consuming extraction always consumes the Value; on a type
\* match it returns Some(payload held before the call), on a mismatch None.
C8_TakeReturnsOnMatch ==
    ret.op \in Takes =>
        /\ Consumed
        /\ ret.ty = RuntimeTypeAtCall => ret.ret.some /\ ret.ret.v = TakenFrom
        /\ ret.ty # RuntimeTypeAtCall => ~ret.ret.some

\* C8 as amended: it returns Some(payload) on a type match with a boxed
\* payload; Variant A's primitive Int case returns None for every T, i64
\* included.  The Value and its payload are gone in every case.
C8_TakeReturnsOnBoxedMatch ==
    ret.op \in Takes =>
        LET boxed == variant = "B" \/ ret.before.tag = "Obj"
        IN  /\ Consumed
            /\ ret.fault = "none"
            /\ (boxed /\ ret.ty = RuntimeTypeAtCall) =>
                  ret.ret.some /\ ret.ret.v = TakenFrom
            /\ (~boxed \/ ret.ty # RuntimeTypeAtCall) => ~ret.ret.some

\* A take with the wrong type: None, and the Value is gone all the same.
C8_Witness ==
    /\ ret.op \in Takes
    /\ TakenFrom.kind = "Complex"
    /\ ret.ty # "Complex"
    /\ ~ret.ret.some
    /\ ~Live(ret.h)

\* The payload last constructed or assigned, for the Value in h.
LastWritten(h) == IF variant = "A" THEN written[h] ELSE written[vals[h].cell]

\* C9: what was assigned through a write view is what later operations see: a
\* read view, an equality comparison and a consuming extraction.  And main():
\* val == val2 before the mutation, val != val2 after it, val != ival both
\* times, and the extraction from val yields Complex{x: 1337, y: 666}.
C9_MutationVisible ==
    /\ (ret.op \in {"obj", "obj_mut"} /\ ret.ret.some) =>
          ret.ret.v = ret.before.obj /\ PayloadOf(ret.h) = LastWritten(ret.h)
    /\ (ret.op = "object" /\ ret.ret.some) => ret.ret.v = written[ret.cell]
    /\ (ret.op = "eq" /\ ret.fault = "none") =>
          ret.res = SameKindAndEqual(LastWritten(ret.h), LastWritten(ret.h2))
    /\ (ret.op = "obj_into" /\ ret.ret.some) => ret.ret.v = written[ret.h]
    /\ (ret.op = "into_object" /\ ret.ret.some) => ret.ret.v = written[ret.cell]
    /\ Len(out) >= 1 => out[1].eq /\ ~out[1].eq_ival
    /\ Len(out) >= 2 => out[2] = ComplexObj(23, 42)
    /\ Len(out) >= 3 => out[3] = ComplexObj(1337, 666)
    /\ Len(out) >= 4 => ~out[4].eq /\ ~out[4].eq_ival
    /\ Len(out) >= 5 => out[5] = Some(ComplexObj(1337, 666))
    /\ pc = "done" => Len(out) = 5 /\ ~Live("val")
    /\ pc # "panicked"

\* main() of Variant B has run to its end.
C9_Witness ==
    /\ pc = "done"
    /\ variant = "B"
    /\ out[5] = Some(ComplexObj(1337, 666))

\* C10: the borrow flag of a cell counts exactly the views outstanding on it
\* (a call that returned None left none, a dropped guard released one), so
\* object_mut::<T>() with the matching type, made when no view is outstanding,
\* returns a write view.
C10_ViewsDoNotLeak ==
    /\ \A c \in DOMAIN cells :
          cells[c].alive =>
              cells[c].borrow = IF Writers(c) > 0 THEN -Writers(c) ELSE Readers(c)
    /\ (ret.op = "object_mut" /\ NoViewAtCall /\ ret.ty = type_id(ret.before.value)) =>
          ret.fault = "none" /\ ret.ret.some

\* object::<T>() for a wrong T on an unborrowed cell: None, the cell unborrowed.
C10_Witness ==
    /\ ret.op = "object"
    /\ ret.ty # type_id(ret.before.value)
    /\ NoViewAtCall
    /\ ~ret.ret.some
    /\ cells[ret.cell].borrow = 0

====
